---------------------------- MODULE Spec2Model ----------------------------
(***************************************************************************)
(* A model of go-onion-transport (package torOnion): the onion multiaddr   *)
(* validation, the key directory and its loading, the construction of the  *)
(* transport over a Tor control session, and Dial / Listen / Accept /      *)
(* Close.  Strings are sequences of one-character strings, so that         *)
(* strings.Split, strconv.Atoi, base32 decoding, strings.HasSuffix and     *)
(* strings.Replace are computed as the code computes them.                 *)
(***************************************************************************)
EXTENDS Integers, Sequences, FiniteSets, TLC

(***************************************************************************)
(* Characters and strings                                                  *)
(***************************************************************************)
Lower == << "a","b","c","d","e","f","g","h","i","j","k","l","m",
            "n","o","p","q","r","s","t","u","v","w","x","y","z" >>

Upper == << "A","B","C","D","E","F","G","H","I","J","K","L","M",
            "N","O","P","Q","R","S","T","U","V","W","X","Y","Z" >>

Digits == << "0","1","2","3","4","5","6","7","8","9" >>

Range(s) == { s[i] : i \in DOMAIN s }

\* strings.ToUpper, one character
ToUpperChar(c) ==
    IF \E i \in DOMAIN Lower : Lower[i] = c
    THEN Upper[CHOOSE i \in DOMAIN Lower : Lower[i] = c]
    ELSE c

\* strings.ToUpper
ToUpper(s) == [ i \in DOMAIN s |-> ToUpperChar(s[i]) ]

\* the index of the first occurrence of character c in s, 0 when there is none
IndexOf(s, c) ==
    IF \E i \in DOMAIN s : s[i] = c
    THEN CHOOSE i \in DOMAIN s : s[i] = c /\ \A j \in 1..(i-1) : s[j] # c
    ELSE 0

RECURSIVE Split(_, _)
\* strings.Split(s, sep) for a one-character separator: always at least one
\* segment, "" splits into the single segment ""
Split(s, sep) ==
    LET i == IndexOf(s, sep)
    IN  IF i = 0 THEN << s >>
        ELSE << SubSeq(s, 1, i - 1) >> \o Split(SubSeq(s, i + 1, Len(s)), sep)

(***************************************************************************)
(* strconv.Atoi: an optional sign, then one or more decimal digits.        *)
(* The result is [err, n].                                                 *)
(***************************************************************************)
DigitVal(c) == (CHOOSE i \in DOMAIN Digits : Digits[i] = c) - 1

IsDigit(c) == \E i \in DOMAIN Digits : Digits[i] = c

RECURSIVE DecVal(_)
DecVal(s) ==
    IF s = << >> THEN 0
    ELSE 10 * DecVal(SubSeq(s, 1, Len(s) - 1)) + DigitVal(s[Len(s)])

Atoi(s) ==
    LET signed == s # << >> /\ s[1] \in { "+", "-" }
        body   == IF signed THEN Tail(s) ELSE s
    IN  IF body = << >> \/ \E i \in DOMAIN body : ~IsDigit(body[i])
        THEN [ err |-> TRUE, n |-> 0 ]
        ELSE [ err |-> FALSE,
               n   |-> IF signed /\ s[1] = "-" THEN 0 - DecVal(body)
                       ELSE DecVal(body) ]

(***************************************************************************)
(* base32.StdEncoding.DecodeString, as far as its error result goes: the   *)
(* input is read in quanta of 8 characters; a padding character is taken   *)
(* as padding only from the third character of the last quantum on, must   *)
(* run to the end of the quantum, and may not leave 3 or 6 data            *)
(* characters.                                                             *)
(***************************************************************************)
encodeStd == Upper \o << "2","3","4","5","6","7" >>

InAlphabet(c) == \E i \in DOMAIN encodeStd : encodeStd[i] = c

\* one quantum of 8 characters; last: no input follows it
QuantumOk(q, last) ==
    LET pad == IndexOf(q, "=")
    IN  IF pad = 0 \/ ~last \/ pad < 3
        THEN \A i \in 1..8 : InAlphabet(q[i])
        ELSE /\ \A i \in 1..(pad - 1) : InAlphabet(q[i])
             /\ \A i \in pad..8 : q[i] = "="
             /\ (pad - 1) \notin { 3, 6 }

RECURSIVE DecodeStringOk(_)
DecodeStringOk(s) ==
    IF s = << >> THEN TRUE
    ELSE IF Len(s) < 8 THEN FALSE
    ELSE /\ QuantumOk(SubSeq(s, 1, 8), Len(s) = 8)
         /\ DecodeStringOk(SubSeq(s, 9, Len(s)))

(***************************************************************************)
(* Multiaddresses: a sequence of components [name, value].                 *)
(***************************************************************************)
\* ma.Multiaddr.Protocols(): the protocol names, in order
ProtocolsOf(a) == [ i \in DOMAIN a |-> a[i].name ]

\* ma.Multiaddr.ValueForProtocol(ma.P_ONION): [err, value]
ValueForProtocol(a, name) ==
    IF \E i \in DOMAIN a : a[i].name = name
    THEN [ err |-> FALSE,
           value |-> a[CHOOSE i \in DOMAIN a :
                          a[i].name = name /\ \A j \in 1..(i-1) : a[j].name # name].value ]
    ELSE [ err |-> TRUE, value |-> << >> ]

\* the length an onion host must have
OnionHostLen == 16

\* the first port number that is too large
PortLimit == 65536

\* the least port number
PortMin == 1

\* the port test with its upper limit off by one
PortInRangeOffByOne(i) == ~(i > PortLimit \/ i < PortMin)

\* the port test of IsValidOnionMultiAddr
PortInRange(i) == ~(i >= PortLimit \/ i < PortMin)

\* IsValidOnionMultiAddr
IsValidOnionMultiAddr(a) ==
    IF Len(ProtocolsOf(a)) # 1 THEN FALSE
    ELSE IF ProtocolsOf(a)[1] # "onion" THEN FALSE
    ELSE LET v == ValueForProtocol(a, "onion")
             split == Split(v.value, ":")
         IN  IF v.err THEN FALSE
             ELSE IF Len(split) # 2 THEN FALSE
             ELSE IF Len(split[1]) # OnionHostLen THEN FALSE
             ELSE IF ~DecodeStringOk(ToUpper(split[1])) THEN FALSE
             ELSE LET i == Atoi(split[2])
                  IN  IF i.err THEN FALSE
                      ELSE PortInRange(i.n)

(***************************************************************************)
(* Optional values: a nil pointer is None, a value x is Some(x).           *)
(***************************************************************************)
None == << >>

Some(x) == << x >>

(***************************************************************************)
(* The addresses the operations are called with.                           *)
(***************************************************************************)
\* the onion host of the test address /onion/erhkddypoy6qml6h:4003
H1 == << "e","r","h","k","d","d","y","p","o","y","6","q","m","l","6","h" >>

\* the onion host of the test key file timaq4ygg2iegci7
H2 == << "t","i","m","a","q","4","y","g","g","2","i","e","g","c","i","7" >>

H1Upper == << "E","R","H","K","D","D","Y","P","O","Y","6","Q","M","L","6","H" >>

HShort == << "e","r","h","k","d","d","y","p","o","y","6","q","m","l","6" >>

HLong == << "e","r","h","k","d","d","y","p","o","y","6","q","m","l","6","h","h" >>

HBadChar == << "e","r","h","k","d","d","y","p","o","y","6","q","m","l","1","h" >>

HPadded == << "e","r","h","k","d","d","y","p","o","y","6","q","m","l","h","=" >>

HBadPad == << "e","r","h","k","d","d","y","p","o","y","6","q","m","l","=","=" >>

HEarlyPad == << "e","=","h","k","d","d","y","p","o","y","6","q","m","l","6","h" >>

HostTexts ==
    { H1, H2, H1Upper, HShort, HLong, HBadChar, HPadded, HBadPad, HEarlyPad, << >> }

PortTexts ==
    { << "4","0","0","3" >>, << "8","0" >>, << "0" >>, << "1" >>,
      << "6","5","5","3","5" >>, << "6","5","5","3","6" >>,
      << "7","0","0","0","0" >>, << "a","b","c" >>, << >>,
      << "-","1" >>, << "+","8","0" >>, << "0","0","8","0" >>, << "8","0","x" >> }

\* /onion/<value>
OnionMultiaddr(value) == << [ name |-> "onion", value |-> value ] >>

\* /ip4/0.0.0.0/tcp/4001
TcpAddr ==
    << [ name |-> "ip4", value |-> << "0",".","0",".","0",".","0" >> ],
       [ name |-> "tcp", value |-> << "4","0","0","1" >> ] >>

\* the values of an onion component: one, two and three segments
OnionValues ==
    { h \o << ":" >> \o p : h \in HostTexts, p \in PortTexts }
      \cup HostTexts
      \cup { h \o << ":" >> \o p \o << ":" >> \o p : h \in { H1, HShort }, p \in PortTexts }

\* every address IsValidOnionMultiAddr is applied to
CodecAddrs ==
    { OnionMultiaddr(v) : v \in OnionValues }
      \cup { TcpAddr, << >>,
             OnionMultiaddr(H1 \o << ":","8","0" >>) \o TcpAddr,
             TcpAddr \o OnionMultiaddr(H1 \o << ":","8","0" >>),
             << [ name |-> "tcp", value |-> H1 \o << ":","8","0" >> ] >> }

(***************************************************************************)
(* What the specification says of an address, stated without the code's    *)
(* operators.                                                              *)
(***************************************************************************)
\* the positions of the colons in a text
Colons(v) == { i \in DOMAIN v : v[i] = ":" }

\* the text before the first colon and the text after it
HostText(v) == SubSeq(v, 1, (CHOOSE i \in Colons(v) : \A j \in Colons(v) : i <= j) - 1)

PortText(v) == SubSeq(v, (CHOOSE i \in Colons(v) : \A j \in Colons(v) : i <= j) + 1, Len(v))

Base32Chars == Range(Lower) \cup Range(Upper) \cup { "2","3","4","5","6","7" }

\* the number of padding characters a text ends in
Padding(h) == Cardinality({ i \in DOMAIN h : \A j \in i..Len(h) : h[j] = "=" })

\* base32 text, upper or lower case: whole groups of 8 characters of the
\* alphabet, the last group padded by 0, 1, 3, 4 or 6 characters
IsBase32Text(h) ==
    /\ Len(h) % 8 = 0
    /\ \A i \in 1..(Len(h) - Padding(h)) : h[i] \in Base32Chars
    /\ Padding(h) \in { 0, 1, 3, 4, 6 }

\* the decimal numerals, signed or not, of the integers 1..65535
DenotesPort(p) ==
    LET digits == IF p # << >> /\ p[1] \in { "+", "-" } THEN Tail(p) ELSE p
        value[i \in 0..Len(digits)] ==
            IF i = 0 THEN 0 ELSE 10 * value[i - 1] + DigitVal(digits[i])
    IN  /\ digits # << >>
        /\ \A i \in DOMAIN digits : digits[i] \in Range(Digits)
        /\ (p[1] # "-" /\ value[Len(digits)] \in 1..65535)

\* the text is a numeral of an integer
IsNumeral(p) ==
    LET digits == IF p # << >> /\ p[1] \in { "+", "-" } THEN Tail(p) ELSE p
    IN  digits # << >> /\ \A i \in DOMAIN digits : digits[i] \in Range(Digits)

\* an address of one onion component
IsOnion(a) == Len(a) = 1 /\ a[1].name = "onion"

\* a valid onion address: host:port, the host 16 characters of base32, the
\* port in 1..65535
ValidOnion(a) ==
    /\ IsOnion(a)
    /\ Cardinality(Colons(a[1].value)) = 1
    /\ Len(HostText(a[1].value)) = 16
    /\ IsBase32Text(HostText(a[1].value))
    /\ DenotesPort(PortText(a[1].value))

(***************************************************************************)
(* Key material.  An RSA private key is [N, D]; its public half is [N].    *)
(* pkcs1.EncodePrivateKeyDER / DecodePrivateKeyDER, pem.Encode / Decode    *)
(* and pkcs1.OnionAddr are library code: they are modelled by what they    *)
(* do to a key, a byte string being a sequence of tokens.                  *)
(***************************************************************************)
\* the keys rsa.GenerateKey returns
PrivKeys == { [ N |-> "n1", D |-> "d1" ], [ N |-> "n2", D |-> "d2" ] }

NoKey == [ N |-> "", D |-> "" ]

PublicKey(priv) == [ N |-> priv.N ]

\* pkcs1.OnionAddr: the onion identity of a public key (a hash of it)
OnionAddr(pub) == IF pub.N = "n1" THEN H1 ELSE H2

\* pkcs1.EncodePrivateKeyDER
EncodePrivateKeyDER(priv) == << "SEQ", priv.N, priv.D >>

\* pkcs1.DecodePrivateKeyDER: [err, key]
DecodePrivateKeyDER(bytes) ==
    IF Len(bytes) = 3 /\ bytes[1] = "SEQ"
    THEN [ err |-> FALSE, key |-> [ N |-> bytes[2], D |-> bytes[3] ] ]
    ELSE [ err |-> TRUE, key |-> NoKey ]

\* pem.Encode of a block [Type, Bytes]
pemEncode(block) ==
    << "-----BEGIN", block.Type >> \o block.Bytes \o << "-----END", block.Type >>

\* pem.Decode: Some(block), or None when the data holds no PEM block
pemDecode(data) ==
    IF /\ Len(data) >= 4
       /\ data[1] = "-----BEGIN"
       /\ data[Len(data) - 1] = "-----END"
       /\ data[Len(data)] = data[2]
    THEN Some([ Type |-> data[2], Bytes |-> SubSeq(data, 3, Len(data) - 2) ])
    ELSE None

(***************************************************************************)
(* File names.                                                             *)
(***************************************************************************)
keySuffix == << ".","o","n","i","o","n","_","k","e","y" >>

\* strings.HasSuffix
HasSuffix(s, suffix) ==
    /\ Len(s) >= Len(suffix)
    /\ SubSeq(s, Len(s) - Len(suffix) + 1, Len(s)) = suffix

\* strings.Replace(s, old, "", 1): s without the first occurrence of old
RemoveFirst(s, old) ==
    LET at == { i \in 1..(Len(s) - Len(old) + 1) : SubSeq(s, i, i + Len(old) - 1) = old }
    IN  IF at = { } THEN s
        ELSE LET i == CHOOSE i \in at : \A j \in at : i <= j
             IN  SubSeq(s, 1, i - 1) \o SubSeq(s, i + Len(old), Len(s))

\* the characters in byte order, for the lexical order filepath.Walk visits in
Ascii == << "+","-",".","/","0","1","2","3","4","5","6","7","8","9",":","=",
            "A","B","C","D","E","F","G","H","I","J","K","L","M","N","O","P","Q",
            "R","S","T","U","V","W","X","Y","Z","_",
            "a","b","c","d","e","f","g","h","i","j","k","l","m","n","o","p","q",
            "r","s","t","u","v","w","x","y","z" >>

Ord(c) == CHOOSE i \in DOMAIN Ascii : Ascii[i] = c

RECURSIVE LexLess(_, _)
LexLess(s, t) ==
    IF t = << >> THEN FALSE
    ELSE IF s = << >> THEN TRUE
    ELSE IF s[1] # t[1] THEN Ord(s[1]) < Ord(t[1])
    ELSE LexLess(Tail(s), Tail(t))

RECURSIVE SortedNames(_)
\* the names of a directory in the order filepath.Walk visits them
SortedNames(names) ==
    IF names = { } THEN << >>
    ELSE LET first == CHOOSE n \in names : \A m \in names \ { n } : LexLess(n, m)
         IN  << first >> \o SortedNames(names \ { first })

(***************************************************************************)
(* The state.                                                              *)
(*   keysDir    the key directory: whether it exists and can be read, and  *)
(*              its files (name -> contents); its files are readable       *)
(*   sessions   the control sessions opened by bulb.Dial: whether the      *)
(*              session is authenticated, and the last call made on it     *)
(*   transport  the transport the application holds (None before the       *)
(*              first successful NewOnionTransport)                        *)
(*   listeners  the listeners Listen has returned                          *)
(*   conns      the connections Dial and Accept have returned              *)
(*   ret        the last call: its name, argument, error, whether it       *)
(*              ended in a run-time panic, and its result                  *)
(*   pending    the listeners on which a caller is blocked in Accept       *)
(*   service    the MortalService: its fields, and where its goroutines    *)
(*              and the caller of Start and Stop are                       *)
(***************************************************************************)
VARIABLES keysDir, sessions, transport, listeners, conns, ret, pending, service

vars == << keysDir, sessions, transport, listeners, conns, ret, pending, service >>

\* what the calls on the transport, its listeners and the codec leave alone
svars == << pending, service >>

\* bounds of the model
\* the sessions, listeners and connections that are ever created
MaxObjects == 3

Objects == Len(sessions) + Len(listeners) + Len(conns) + Len(service.conns)

\* a run-time panic ends the program
Running == ~ret.panic

Return(op, arg, err, res) ==
    [ op |-> op, arg |-> arg, err |-> err, panic |-> FALSE, res |-> res ]

Panic(op, arg) ==
    [ op |-> op, arg |-> arg, err |-> "", panic |-> TRUE, res |-> None ]

\* the path of the key directory
keysDirPath == << "k","e","y","s" >>

PemType == "RSA PRIVATE KEY"

\* the file createHiddenServiceKey writes for a key
KeyFile(priv) == pemEncode([ Type |-> PemType, Bytes |-> EncodePrivateKeyDER(priv) ])

\* contents that are no PEM block (what TestOnionTransport writes as a key)
NotPem == << "A", "A", "A" >>

\* a PEM block whose bytes are no private key
BadDer == pemEncode([ Type |-> PemType, Bytes |-> << "junk" >> ])

K1 == [ N |-> "n1", D |-> "d1" ]

K2 == [ N |-> "n2", D |-> "d2" ]

NoFiles == [ n \in { } |-> << >> ]

\* the key directories the program may start with: one that does not exist
\* or cannot be read, an empty one, one proper key file, a key file that is
\* no PEM block (as TestOnionTransport writes it), a key file after which
\* one with undecodable bytes follows, a key file under another key's name,
\* a key file beside a file of another kind, and two proper key files
KeyDirs ==
    { [ exists |-> FALSE, files |-> NoFiles ] }
      \cup { [ exists |-> TRUE, files |-> f ] :
               f \in { NoFiles,
                       (H1 \o keySuffix) :> KeyFile(K1),
                       (H1 \o keySuffix) :> NotPem,
                       (H1 \o keySuffix) :> KeyFile(K1) @@ (H2 \o keySuffix) :> BadDer,
                       (H2 \o keySuffix) :> KeyFile(K1),
                       (H1 \o keySuffix) :> KeyFile(K1) @@ << "n","o","t","e","s" >> :> NotPem,
                       (H1 \o keySuffix) :> KeyFile(K1) @@ (H2 \o keySuffix) :> KeyFile(K2) } }

NoCall == [ op |-> "", arg |-> None, err |-> "", panic |-> FALSE, res |-> None ]

(***************************************************************************)
(* loadKeys.  The walk function is applied to the root and then to the     *)
(* files in lexical order; filepath.Walk stops at the first error the walk *)
(* function returns.  acc is [keys, err, panic].                           *)
(***************************************************************************)
\* the map key taken to be the whole file name
onionNameWithSuffix(path) == path

\* the map key of a key file: its name without the first ".onion_key"
onionNameOf(path) == RemoveFirst(path, keySuffix)

\* the walk function on a file that exists
walkpath(acc, path, data) ==
    IF HasSuffix(path, keySuffix)
    THEN LET onionName == onionNameOf(path)
             block == pemDecode(data)
         IN  IF block = None
             THEN [ acc EXCEPT !.panic = TRUE ]
             ELSE LET d == DecodePrivateKeyDER(block[1].Bytes)
                  IN  IF d.err
                      THEN [ acc EXCEPT !.err = "decode private key" ]
                      ELSE [ acc EXCEPT !.keys = (onionName :> d.key) @@ acc.keys ]
    ELSE acc

\* the walk function on the root: a directory, or a path that is not there
walkroot(acc, path) ==
    IF HasSuffix(path, keySuffix)
    THEN [ acc EXCEPT !.err = "open" ]
    ELSE acc

RECURSIVE walkFiles(_, _, _)
walkFiles(acc, names, files) ==
    IF names = << >> \/ acc.err # "" \/ acc.panic THEN acc
    ELSE walkFiles(walkpath(acc, Head(names), files[Head(names)]), Tail(names), files)

\* filepath.Walk(absPath, walkpath)
Walk(acc, dir) ==
    IF ~dir.exists
    THEN walkroot(acc, keysDirPath)
    ELSE walkFiles(walkroot(acc, keysDirPath), SortedNames(DOMAIN dir.files), dir.files)

EmptyKeys == [ n \in { } |-> NoKey ]

\* loadKeys: [keys, err, panic]
loadKeys(dir) == Walk([ keys |-> EmptyKeys, err |-> "", panic |-> FALSE ], dir)

(***************************************************************************)
(* The addresses of the transport's calls.                                 *)
(***************************************************************************)
\* the addresses Listen is called with
ListenAddrs ==
    { OnionMultiaddr(H1 \o << ":","4","0","0","3" >>),
      OnionMultiaddr(H2 \o << ":","8","0" >>),
      OnionMultiaddr(H1 \o << ":","7","0","0","0","0" >>),
      OnionMultiaddr(H1 \o << ":","a","b","c" >>),
      OnionMultiaddr(H1),
      OnionMultiaddr(H1 \o << ":","8","0",":","1" >>),
      TcpAddr }

\* the addresses Dial is called with
DialAddrs ==
    { OnionMultiaddr(H1 \o << ":","4","0","0","3" >>),
      OnionMultiaddr(H1 \o << ":","7","0","0","0","0" >>),
      OnionMultiaddr(H1),
      OnionMultiaddr(<< >>),
      << [ name |-> "tcp", value |-> << "8","0" >> ] >>,
      TcpAddr }

(***************************************************************************)
(* The key directory: createHiddenServiceKey and other writers.            *)
(***************************************************************************)
WriteTo(dir, name, data) == [ dir EXCEPT !.files = (name :> data) @@ dir.files ]

\* createHiddenServiceKey, for the key rsa.GenerateKey returned; TestMain
\* calls it in setup(), before anything else runs
createHiddenServiceKey(priv) ==
    LET id == OnionAddr(PublicKey(priv))
    IN  /\ Running
        /\ ret = NoCall
        /\ IF keysDir.exists
           THEN /\ keysDir' = WriteTo(keysDir, id \o keySuffix, KeyFile(priv))
                /\ ret' = Return("createHiddenServiceKey", None, "", Some(id))
           ELSE /\ keysDir' = keysDir
                /\ ret' = Return("createHiddenServiceKey", None, "create", None)
        /\ UNCHANGED << sessions, transport, listeners, conns >>

(***************************************************************************)
(* NewOnionTransport.  fail: what the control port refuses, "dial" (the    *)
(* connection), "auth" (the password) or "" (nothing).                     *)
(***************************************************************************)
\* the control session after a call on it
\* a call that leaves the session it is made on unauthenticated
CalledUnauthenticates(sid, call) ==
    [ sessions EXCEPT ![sid].call = Some(call), ![sid].authed = FALSE ]

Called(sid, call) == [ sessions EXCEPT ![sid].call = Some(call) ]

\* NewOnionTransport going on after a failed Authenticate
constructUnauthenticated(authed, keys) ==
    IF keys.panic THEN "panic" ELSE keys.err

\* NewOnionTransport once the control connection stands: the error it
\* returns ("" when none), or "panic"
construct(authed, keys) ==
    IF ~authed THEN "Authentication failed"
    ELSE IF keys.panic THEN "panic"
    ELSE keys.err

\* every state of the key directory
AllDirs ==
    KeyDirs \cup { WriteTo(d, OnionAddr(PublicKey(k)) \o keySuffix, KeyFile(k)) :
                     d \in { x \in KeyDirs : x.exists }, k \in PrivKeys }

\* loadKeys, tabulated over the states of the key directory
LoadedKeys == [ d \in AllDirs |-> loadKeys(d) ]

NewOnionTransport(fail, onlyOnion) ==
    LET sid  == Len(sessions) + 1
        keys == LoadedKeys[keysDir]
        o    == [ controlConn |-> sid, keys |-> keys.keys, onlyOnion |-> onlyOnion ]
        err  == construct(fail # "auth", keys)
        op   == "NewOnionTransport"
    IN  /\ Running
        /\ Objects < MaxObjects
        /\ UNCHANGED << keysDir, listeners, conns >>
        /\ IF fail = "dial"
           THEN /\ ret' = Return(op, None, "control dial", None)
                /\ UNCHANGED << sessions, transport >>
           ELSE /\ sessions' = Append(sessions, [ authed |-> fail # "auth", call |-> None ])
                /\ IF err = "panic"
                   THEN /\ ret' = Panic(op, None)
                        /\ UNCHANGED transport
                   ELSE IF err # ""
                   THEN /\ ret' = Return(op, None, err, None)
                        /\ UNCHANGED transport
                   ELSE /\ ret' = Return(op, None, "", Some(o))
                        /\ transport' = Some(o)

(***************************************************************************)
(* Listen.  The control session creates the hidden service, or fails.     *)
(***************************************************************************)
\* the modulus of the conversion uint16(port)
Uint16Mod == 65536

uint16(n) == n % Uint16Mod

\* t.keys[host]: whether there is an entry, and the key (nil when there is none)
MapLookup(keys, host) ==
    [ ok  |-> host \in DOMAIN keys,
      key |-> IF host \in DOMAIN keys THEN keys[host] ELSE NoKey ]

\* Listen without the test of the key lookup's result
ListenCheckNoKey(keys, addr) ==
    IF Len(addr) # 2 THEN "failed to parse onion address"
    ELSE IF Atoi(addr[2]).err THEN "failed to convert onion service port to int"
    ELSE ""

\* Listen up to and including the key lookup: the error returned, "" when none
ListenCheck(keys, addr) ==
    IF Len(addr) # 2 THEN "failed to parse onion address"
    ELSE IF Atoi(addr[2]).err THEN "failed to convert onion service port to int"
    ELSE IF ~MapLookup(keys, addr[1]).ok THEN "missing onion service key material"
    ELSE ""

\* a listener that keeps the host of its address only
newListenerHostOnly(port, key, laddr) ==
    [ port |-> uint16(port), key |-> key, closed |-> FALSE,
      laddr |-> OnionMultiaddr(HostText(laddr[1].value)) ]

\* OnionListener{port: uint16(port), key: onionKey, laddr: laddr}
newListener(port, key, laddr) ==
    [ port |-> uint16(port), key |-> key, laddr |-> laddr, closed |-> FALSE ]

\* the segments of the onion value ("" when there is none: the error of
\* ValueForProtocol is dropped), tabulated over the addresses Listen is called with
ListenSplit ==
    [ a \in ListenAddrs |-> Split(ValueForProtocol(a, "onion").value, ":") ]

Listen(laddr) ==
    LET t       == transport[1]
        addr    == ListenSplit[laddr]
        err     == ListenCheck(t.keys, addr)
        port    == Atoi(addr[2]).n
        key     == MapLookup(t.keys, addr[1]).key
        op      == "Listen"
    IN  /\ Running
        /\ transport # None
        /\ Objects < MaxObjects
        /\ UNCHANGED << keysDir, transport, conns >>
        /\ IF err # ""
           THEN /\ ret' = Return(op, Some(laddr), err, None)
                /\ UNCHANGED << sessions, listeners >>
           ELSE /\ sessions' = Called(t.controlConn,
                                      [ op |-> "Listener", port |-> uint16(port),
                                        key |-> key ])
                /\ \/ /\ ret' = Return(op, Some(laddr), "session", None)
                      /\ UNCHANGED listeners
                   \/ /\ listeners' = Append(listeners, newListener(port, key, laddr))
                      /\ ret' = Return(op, Some(laddr), "", Some(Len(listeners) + 1))

(***************************************************************************)
(* Dial.  The control session hands out a proxy dialer, or fails; the dial *)
(* through it succeeds, or fails; the upgrader accepts the connection, or  *)
(* fails.                                                                  *)
(***************************************************************************)
\* manet.ToNetAddr: [err, network, address]; only IP addresses convert, no
\* codec is registered for onion
ToNetAddr(a) ==
    IF Len(a) = 2 /\ a[1].name = "ip4" /\ a[2].name = "tcp"
    THEN [ err |-> FALSE, network |-> "tcp4",
           address |-> a[1].value \o << ":" >> \o a[2].value ]
    ELSE [ err |-> TRUE, network |-> "", address |-> << >> ]

dotOnion == << ".","o","n","i","o","n",":" >>

\* a dialed connection that gives the dialed address as its local address too
dialedConnWithLocal(raddr) ==
    [ laddr |-> Some(raddr), raddr |-> Some(raddr) ]

\* OnionConn{transport: t, raddr: &raddr}
dialedConn(raddr) ==
    [ laddr |-> None, raddr |-> Some(raddr) ]

\* what Dial asks the proxy dialer for: [err, panic, network, address]
DialTarget(raddr) ==
    LET netaddr == ToNetAddr(raddr)
        onion   == ValueForProtocol(raddr, "onion")
        split   == Split(onion.value, ":")
        none    == [ err |-> FALSE, panic |-> FALSE, network |-> "", address |-> << >> ]
    IN  IF netaddr.err /\ onion.err THEN [ none EXCEPT !.err = TRUE ]
        ELSE IF netaddr.err /\ onion.value # << >>
        THEN IF Len(split) < 2
             THEN [ none EXCEPT !.panic = TRUE ]
             ELSE [ none EXCEPT !.network = "tcp4",
                                !.address = split[1] \o dotOnion \o split[2] ]
        ELSE IF netaddr.err
        THEN [ none EXCEPT !.panic = TRUE ]
        ELSE [ none EXCEPT !.network = netaddr.network, !.address = netaddr.address ]

\* DialTarget, tabulated over the addresses Dial is called with
DialTargetOf == [ a \in DialAddrs |-> DialTarget(a) ]

Dial(raddr) ==
    LET t      == transport[1]
        target == DialTargetOf[raddr]
        op     == "Dial"
    IN  /\ Running
        /\ transport # None
        /\ Objects < MaxObjects
        /\ UNCHANGED << keysDir, transport, listeners >>
        /\ \/ /\ sessions' = Called(t.controlConn, [ op |-> "Dialer" ])
              /\ ret' = Return(op, Some(raddr), "session", None)
              /\ UNCHANGED conns
           \/ /\ target.err
              /\ sessions' = Called(t.controlConn, [ op |-> "Dialer" ])
              /\ ret' = Return(op, Some(raddr), "protocol not in multiaddr", None)
              /\ UNCHANGED conns
           \/ /\ ~target.err /\ target.panic
              /\ sessions' = Called(t.controlConn, [ op |-> "Dialer" ])
              /\ ret' = Panic(op, Some(raddr))
              /\ UNCHANGED conns
           \/ /\ ~target.err /\ ~target.panic
              /\ sessions' = Called(t.controlConn,
                                    [ op |-> "Dial", network |-> target.network,
                                      address |-> target.address ])
              /\ \/ /\ ret' = Return(op, Some(raddr), "session", None)
                    /\ UNCHANGED conns
                 \/ /\ ret' = Return(op, Some(raddr), "upgrade", None)
                    /\ UNCHANGED conns
                 \/ /\ conns' = Append(conns, dialedConn(raddr))
                    /\ ret' = Return(op, Some(raddr), "", Some(Len(conns) + 1))

(***************************************************************************)
(* OnionListener and OnionConn.                                            *)
(***************************************************************************)
\* the peers that connect to a listener: their network addresses
Peers == { [ network |-> "tcp", ip |-> << "1",".","2",".","3",".","4" >>,
             port |-> << "9","0" >> ],
           [ network |-> "unix", ip |-> << >>, port |-> << >> ] }

\* manet.FromNetAddr: [err, maddr]
FromNetAddr(peer) ==
    IF peer.network = "tcp"
    THEN [ err |-> FALSE,
           maddr |-> << [ name |-> "ip4", value |-> peer.ip ],
                        [ name |-> "tcp", value |-> peer.port ] >> ]
    ELSE [ err |-> TRUE, maddr |-> << >> ]

\* the error of a listener that has been closed
ClosedError == "use of closed network connection"

\* the error of a session that does not remove the hidden service
DeregisterError == "close"

\* an accept that failed while the listener is open
AcceptError == "accept"

\* an accepted connection with its two addresses exchanged
acceptedConnSwapped(l, raddr) ==
    [ laddr |-> Some(raddr), raddr |-> Some(l.laddr) ]

\* OnionConn{Conn: conn, laddr: &l.laddr, raddr: &raddr}
acceptedConn(l, raddr) ==
    [ laddr |-> Some(l.laddr), raddr |-> Some(raddr) ]

\* OnionListener.Accept, returning when a peer has connected or the
\* underlying listener has failed
Accept(i) ==
    LET l  == listeners[i]
        op == "Accept"
    IN  /\ Running
        /\ i \in DOMAIN listeners
        /\ l.closed \/ Objects < MaxObjects
        /\ UNCHANGED << keysDir, sessions, transport, listeners >>
        /\ IF l.closed
           THEN /\ ret' = Return(op, Some(i), ClosedError, None)
                /\ UNCHANGED conns
           ELSE \/ /\ ret' = Return(op, Some(i), AcceptError, None)
                   /\ UNCHANGED conns
                \/ \E peer \in Peers :
                     LET raddr == FromNetAddr(peer)
                     IN  IF raddr.err
                         THEN /\ ret' = Return(op, Some(i), "address conversion", None)
                              /\ UNCHANGED conns
                         ELSE /\ conns' = Append(conns, acceptedConn(l, raddr.maddr))
                              /\ ret' = Return(op, Some(i), "", Some(Len(conns) + 1))

\* Close of the session's listener: it closes its socket, which fails when
\* the socket is closed already, and only then removes the hidden service
\* from the session (failed: the session refuses, or is gone)
listenerClose(l, failed) ==
    IF l.closed THEN ClosedError
    ELSE IF failed THEN DeregisterError
    ELSE ""

\* OnionListener.Close: the result of the underlying listener's Close
Close(i, failed) ==
    /\ Running
    /\ i \in DOMAIN listeners
    /\ listeners' = [ listeners EXCEPT ![i].closed = TRUE ]
    /\ ret' = Return("Close", Some(i), listenerClose(listeners[i], failed), None)
    /\ UNCHANGED << keysDir, sessions, transport, conns >>

\* OnionListener.Multiaddr
Multiaddr(l) == l.laddr

\* OnionConn.LocalMultiaddr: nil when laddr is nil
LocalMultiaddr(c) == IF c.laddr = None THEN None ELSE Some(c.laddr[1])

\* OnionConn.RemoteMultiaddr
RemoteMultiaddr(c) == c.raddr[1]

(***************************************************************************)
(* MortalService: a listener, the loop that accepts on it, one handler per *)
(* accepted connection, and Stop.  l.conns is made with room for ten       *)
(* connections, so append does not move it in this model.                  *)
(*   listener   "nil", "open" or "closed"                                  *)
(*   stopping   l.stopping                                                 *)
(*   conns      per accepted connection: slot (l.conns[id] is not nil),    *)
(*              closed, and handler ("callback", "clear" or "done")        *)
(*   waitGroup  the counter of l.waitGroup                                 *)
(*   main       the caller: "new", "started", "close", "wait", "stopped"   *)
(*   loop       acceptLoop: "none", "accept", "close", "sweep", "done"     *)
(*   next       the index the sweep of acceptLoop is at                    *)
(*   lines      the lines the callbacks have written                       *)
(***************************************************************************)
\* the lines the callbacks are followed for
MaxLines == 1

\* a service whose wait group counts an accept loop from its construction
NewMortalServiceWaiting ==
    [ listener |-> "nil", stopping |-> FALSE, conns |-> << >>, waitGroup |-> 1,
      main |-> "new", loop |-> "none", next |-> 0, lines |-> 0 ]

NewMortalService ==
    [ listener |-> "nil", stopping |-> FALSE, conns |-> << >>, waitGroup |-> 0,
      main |-> "new", loop |-> "none", next |-> 0, lines |-> 0 ]

\* what the calls on the service leave alone
tvars == << keysDir, sessions, transport, listeners, conns, ret, pending >>

\* Start: net.Listen succeeds (ok) or fails
Start(ok) ==
    /\ Running
    /\ service.main = "new"
    /\ service' = IF ok
                  THEN [ service EXCEPT !.listener = "open", !.waitGroup = @ + 1,
                                        !.loop = "accept", !.main = "started" ]
                  ELSE [ service EXCEPT !.main = "started" ]
    /\ UNCHANGED tvars

\* Stop: l.stopping = true
StopBegin ==
    /\ Running
    /\ service.main = "started"
    /\ service' = [ service EXCEPT !.stopping = TRUE, !.main = "close" ]
    /\ UNCHANGED tvars

\* Stop: if l.listener != nil { l.listener.Close() }
StopClose ==
    /\ Running
    /\ service.main = "close"
    /\ service' = [ service EXCEPT
                      !.listener = IF @ = "nil" THEN "nil" ELSE "closed",
                      !.main = "wait" ]
    /\ UNCHANGED tvars

\* Stop: l.waitGroup.Wait() returns, and Stop with it
StopWait ==
    /\ Running
    /\ service.main = "wait"
    /\ service.waitGroup = 0
    /\ service' = [ service EXCEPT !.main = "stopped" ]
    /\ UNCHANGED tvars

\* a loop that goes on after a failed accept whatever l.stopping is
loopNeverExits(stopping) == FALSE

\* a loop that returns after a failed accept whatever l.stopping is
loopAlwaysExits(stopping) == TRUE

\* acceptLoop after a failed accept: if l.stopping { return } else { continue }
loopExits(stopping) == stopping

\* acceptLoop: Accept returns a connection; it is appended to l.conns and
\* its handler started
LoopAcceptConn ==
    /\ Running
    /\ service.loop = "accept"
    /\ service.listener = "open"
    /\ Objects < MaxObjects
    /\ service' = [ service EXCEPT !.conns =
                      Append(@, [ slot |-> TRUE, closed |-> FALSE, closes |-> 0,
                                 handler |-> "callback" ]) ]
    /\ UNCHANGED tvars

\* acceptLoop: Accept returns an error, of a closed listener or another.
\* l.stopping is read without synchronization: until Stop has closed the
\* listener the loop may see (seen) the value from before Stop.
LoopAcceptError(seen) ==
    /\ Running
    /\ service.loop = "accept"
    /\ service.listener # "nil"
    /\ seen \in { service.stopping } \cup
                (IF service.listener = "open" THEN { FALSE } ELSE { })
    /\ service' = IF loopExits(seen)
                  THEN [ service EXCEPT !.loop = "close" ]
                  ELSE service
    /\ UNCHANGED tvars

\* acceptLoop returning: defer l.listener.Close()
LoopClose ==
    /\ Running
    /\ service.loop = "close"
    /\ service' = [ service EXCEPT !.listener = "closed", !.loop = "sweep", !.next = 1 ]
    /\ UNCHANGED tvars

\* the sweep that leaves the connection open
sweepSkip(c) == c

\* the sweep on one entry of l.conns: if conn != nil { conn.Close() }
sweep(c) == IF c.slot THEN [ c EXCEPT !.closed = TRUE, !.closes = @ + 1 ] ELSE c

\* acceptLoop returning: one round of the deferred sweep over l.conns
LoopSweep ==
    /\ Running
    /\ service.loop = "sweep"
    /\ service.next <= Len(service.conns)
    /\ service' = [ service EXCEPT !.conns[service.next] = sweep(@),
                                   !.next = @ + 1 ]
    /\ UNCHANGED tvars

\* acceptLoop returning: defer l.waitGroup.Done()
LoopDone ==
    /\ Running
    /\ service.loop = "sweep"
    /\ service.next > Len(service.conns)
    /\ service' = [ service EXCEPT !.waitGroup = @ - 1, !.loop = "done" ]
    /\ UNCHANGED tvars

\* handleConnection in the callback: SessionWorker reads a line, whatever
\* the read returns, and writes it to the buffer
HandlerWork(id) ==
    /\ Running
    /\ id \in DOMAIN service.conns
    /\ service.conns[id].handler = "callback"
    /\ service.lines < MaxLines
    /\ service' = [ service EXCEPT !.lines = @ + 1 ]
    /\ UNCHANGED tvars

\* handleConnection: the callback returns (SessionWorker never does), and
\* the deferred function closes the connection; closes counts the calls of
\* Close on the connection
HandlerReturn(id) ==
    /\ Running
    /\ id \in DOMAIN service.conns
    /\ service.conns[id].handler = "callback"
    /\ service' = [ service EXCEPT !.conns[id].closed = TRUE,
                                   !.conns[id].closes = @ + 1,
                                   !.conns[id].handler = "clear" ]
    /\ UNCHANGED tvars

\* handleConnection: l.conns[id] = nil
HandlerClear(id) ==
    /\ Running
    /\ id \in DOMAIN service.conns
    /\ service.conns[id].handler = "clear"
    /\ service' = [ service EXCEPT !.conns[id].slot = FALSE,
                                   !.conns[id].handler = "done" ]
    /\ UNCHANGED tvars

(***************************************************************************)
(* A caller blocked in OnionListener.Accept while another closes the       *)
(* listener.                                                               *)
(***************************************************************************)
\* a caller enters OnionListener.Accept
AcceptCall(i) ==
    /\ Running
    /\ i \in DOMAIN listeners
    /\ i \notin pending
    /\ pending' = pending \cup { i }
    /\ UNCHANGED << keysDir, sessions, transport, listeners, conns, ret, service >>

\* the call returns
AcceptReturn(i) ==
    /\ i \in pending
    /\ Accept(i)
    /\ pending' = pending \ { i }
    /\ UNCHANGED service

(***************************************************************************)
(* The transport and its environment.                                      *)
(***************************************************************************)
Init ==
    /\ keysDir \in KeyDirs
    /\ sessions = << >>
    /\ transport = None
    /\ listeners = << >>
    /\ conns = << >>
    /\ ret = NoCall
    /\ pending = { }
    /\ service = NewMortalService

Next ==
    \/ \E priv \in PrivKeys : createHiddenServiceKey(priv) /\ UNCHANGED svars
    \/ \E fail \in { "dial", "auth" } : NewOnionTransport(fail, FALSE) /\ UNCHANGED svars
    \/ \E onlyOnion \in BOOLEAN : NewOnionTransport("", onlyOnion) /\ UNCHANGED svars
    \/ \E a \in ListenAddrs : Listen(a) /\ UNCHANGED svars
    \/ \E a \in DialAddrs : Dial(a) /\ UNCHANGED svars
    \/ \E i \in DOMAIN listeners : Accept(i) /\ UNCHANGED svars
    \/ \E i \in DOMAIN listeners, failed \in BOOLEAN : Close(i, failed) /\ UNCHANGED svars

Spec == Init /\ [][Next]_vars

(***************************************************************************)
(* The listeners and the service with their goroutines: one transport over *)
(* a directory with one key, callers that block in Accept, and the         *)
(* MortalService.  The scheduler runs a goroutine that can take a step, so *)
(* Stop, the returning acceptLoop and an Accept on a closed listener go on.*)
(***************************************************************************)
ServiceListenAddrs == { OnionMultiaddr(H1 \o << ":","4","0","0","3" >>) }

InitService ==
    /\ keysDir = [ exists |-> TRUE, files |-> (H1 \o keySuffix) :> KeyFile(K1) ]
    /\ sessions = << >>
    /\ transport = None
    /\ listeners = << >>
    /\ conns = << >>
    /\ ret = NoCall
    /\ pending = { }
    /\ service = NewMortalService

\* the indices a listener can have
ListenerIds == 1 .. MaxObjects

\* the Accept blocked on listener i, which is closed, returns
AcceptReleased(i) ==
    /\ i \in pending
    /\ listeners[i].closed
    /\ AcceptReturn(i)

\* the Accept of acceptLoop on a closed listener returns
LoopReleased == service.listener = "closed" /\ LoopAcceptError(service.stopping)

NextService ==
    \/ NewOnionTransport("", FALSE) /\ UNCHANGED svars
    \/ \E a \in ServiceListenAddrs : Listen(a) /\ UNCHANGED svars
    \/ \E i \in DOMAIN listeners : AcceptCall(i)
    \/ \E i \in DOMAIN listeners : AcceptReturn(i)
    \/ \E i \in DOMAIN listeners, failed \in BOOLEAN : Close(i, failed) /\ UNCHANGED svars
    \/ \E ok \in BOOLEAN : Start(ok)
    \/ StopBegin
    \/ StopClose
    \/ StopWait
    \/ LoopAcceptConn
    \/ \E seen \in BOOLEAN : LoopAcceptError(seen)
    \/ LoopClose
    \/ LoopSweep
    \/ LoopDone
    \/ \E id \in DOMAIN service.conns : HandlerWork(id)
    \/ \E id \in DOMAIN service.conns : HandlerReturn(id)
    \/ \E id \in DOMAIN service.conns : HandlerClear(id)

SpecService ==
    /\ InitService
    /\ [][NextService]_vars
    /\ \A i \in ListenerIds : WF_vars(AcceptReleased(i))
    /\ WF_vars(LoopReleased)
    /\ WF_vars(StopClose)
    /\ WF_vars(StopWait)
    /\ WF_vars(LoopClose)
    /\ WF_vars(LoopSweep)
    /\ WF_vars(LoopDone)

(***************************************************************************)
(* The address codec on its own: IsValidOnionMultiAddr applied to every    *)
(* address of CodecAddrs.                                                  *)
(***************************************************************************)
IsValidCall(a) ==
    /\ Running
    /\ ret' = Return("IsValidOnionMultiAddr", Some(a), "", Some(IsValidOnionMultiAddr(a)))
    /\ UNCHANGED << keysDir, sessions, transport, listeners, conns >>
    /\ UNCHANGED svars

NextCodec == \E a \in CodecAddrs : IsValidCall(a)

SpecCodec == Init /\ [][NextCodec]_vars

(***************************************************************************)
(* CanDial, Protocols and IsValidOnionMultiAddr as they are called on a    *)
(* transport of either mode.                                               *)
(***************************************************************************)
\* /ip6/::1/tcp/4001
Tcp6Addr ==
    << [ name |-> "ip6", value |-> << ":",":","1" >> ],
       [ name |-> "tcp", value |-> << "4","0","0","1" >> ] >>

\* addresses around the shape of a TCP address: no port, a port alone,
\* another transport, a component too many
TcpLikeAddrs ==
    { TcpAddr, Tcp6Addr,
      << TcpAddr[1] >>, << TcpAddr[2] >>,
      << TcpAddr[1], [ name |-> "udp", value |-> << "5","3" >> ] >>,
      TcpAddr \o << [ name |-> "tcp", value |-> << "8","0" >> ] >> }

\* the addresses CanDial is asked about
QueryAddrs == CodecAddrs \cup TcpLikeAddrs

\* mafmt.TCP.Matches: an IP component and then a TCP component, and no more
TCPMatches(a) ==
    /\ Len(a) = 2
    /\ a[1].name \in { "ip4", "ip6" }
    /\ a[2].name = "tcp"

\* CanDial that takes TCP addresses in either mode
CanDialAnyMode(onlyOnion, addr) ==
    IsValidOnionMultiAddr(addr) \/ TCPMatches(addr)

\* OnionTransport.CanDial
CanDial(onlyOnion, addr) ==
    IF onlyOnion
    THEN IsValidOnionMultiAddr(addr)
    ELSE IsValidOnionMultiAddr(addr) \/ TCPMatches(addr)

\* Protocols that lists TCP in either mode
ProtocolsAnyMode(onlyOnion) == << "onion", "tcp" >>

\* OnionTransport.Protocols
Protocols(onlyOnion) ==
    IF ~onlyOnion THEN << "onion" >> \o << "tcp" >> ELSE << "onion" >>

\* CanDial, tabulated over the addresses it is asked about
CanDialOf == [ onlyOnion \in BOOLEAN |-> [ a \in QueryAddrs |-> CanDial(onlyOnion, a) ] ]

CanDialCall(a) ==
    /\ Running
    /\ transport # None
    /\ ret' = Return("CanDial", Some(a), "", Some(CanDialOf[transport[1].onlyOnion][a]))
    /\ UNCHANGED << keysDir, sessions, transport, listeners, conns >>

ProtocolsCall ==
    /\ Running
    /\ transport # None
    /\ ret' = Return("Protocols", None, "", Some(Protocols(transport[1].onlyOnion)))
    /\ UNCHANGED << keysDir, sessions, transport, listeners, conns >>

\* the values of type ma.Multiaddr: nil (None) and the addresses
Multiaddrs == { None } \cup { Some(a) : a \in CodecAddrs }

\* IsValidOnionMultiAddr, tabulated over the addresses
IsValidOf == [ a \in CodecAddrs |-> IsValidOnionMultiAddr(a) ]

\* IsValidOnionMultiAddr called with a value of type ma.Multiaddr; on nil,
\* a.Protocols() is a method call on a nil interface, which panics
IsValidCallOn(x) ==
    /\ Running
    /\ ret' = IF x = None
              THEN Panic("IsValidOnionMultiAddr", x)
              ELSE Return("IsValidOnionMultiAddr", x, "", Some(IsValidOf[x[1]]))
    /\ UNCHANGED << keysDir, sessions, transport, listeners, conns >>

NextQueries ==
    \/ \E onlyOnion \in BOOLEAN : NewOnionTransport("", onlyOnion) /\ UNCHANGED svars
    \/ \E a \in QueryAddrs : CanDialCall(a) /\ UNCHANGED svars
    \/ ProtocolsCall /\ UNCHANGED svars
    \/ \E x \in Multiaddrs : IsValidCallOn(x) /\ UNCHANGED svars

SpecQueries == InitService /\ [][NextQueries]_vars

(***************************************************************************)
(* The calls on a constructed transport, interleaved: Listen, Dial,        *)
(* CanDial, Protocols and the address check.                               *)
(***************************************************************************)
\* the addresses CanDial and the address check are asked about here
FrameAddrs == QueryAddrs \cap (ListenAddrs \cup DialAddrs \cup TcpLikeAddrs)

NextFrame ==
    \/ \E onlyOnion \in BOOLEAN : NewOnionTransport("", onlyOnion) /\ UNCHANGED svars
    \/ \E a \in ListenAddrs : Listen(a) /\ UNCHANGED svars
    \/ \E a \in DialAddrs : Dial(a) /\ UNCHANGED svars
    \/ \E a \in FrameAddrs : CanDialCall(a) /\ UNCHANGED svars
    \/ ProtocolsCall /\ UNCHANGED svars
    \/ \E a \in FrameAddrs \cap CodecAddrs : IsValidCallOn(Some(a)) /\ UNCHANGED svars

SpecFrame == InitService /\ [][NextFrame]_vars

(***************************************************************************)
(* C1: IsValidOnionMultiAddr(a) is true exactly when a is one onion        *)
(* component whose value is two segments, a host of 16 characters of valid *)
(* base32 (either case) and a port that is an integer in 1..65535; so      *)
(* /ip4/0.0.0.0/tcp/4001 and the ports 0, 65536 and 70000 give false.      *)
(***************************************************************************)
C1_ValidIffOnionHostPort ==
    ret.op = "IsValidOnionMultiAddr" =>
        /\ ret.res[1] = ValidOnion(ret.arg[1])
        /\ ret.arg[1] = TcpAddr => ret.res[1] = FALSE
        /\ \A p \in { << "0" >>, << "6","5","5","3","6" >>, << "7","0","0","0","0" >> } :
               ret.arg[1] = OnionMultiaddr(H1 \o << ":" >> \o p) => ret.res[1] = FALSE

\* the test address /onion/erhkddypoy6qml6h:4003 was found valid
C1_Witness ==
    /\ ret.op = "IsValidOnionMultiAddr"
    /\ ret.arg[1] = OnionMultiaddr(H1 \o << ":","4","0","0","3" >>)
    /\ ret.res[1] = TRUE

(***************************************************************************)
(* The transport's calls, as the specification speaks of them.             *)
(***************************************************************************)
\* the onion value of an address of one onion component
OnionValue(a) == a[1].value

\* an onion address of exactly two segments
TwoSegments(a) == IsOnion(a) /\ Cardinality(Colons(OnionValue(a))) = 1

\* an onion address of two segments whose port is a numeral
Parses(a) == TwoSegments(a) /\ IsNumeral(PortText(OnionValue(a)))

\* an onion address of two segments whose port is no integer in 1..65535
BadPort(a) == TwoSegments(a) /\ ~DenotesPort(PortText(OnionValue(a)))

\* the last call on the control session of the transport
LastCall == sessions[transport[1].controlConn].call

MissingKeyError == "missing onion service key material"

MalformedError == "failed to parse onion address"

InvalidPortError == "failed to convert onion service port to int"

(***************************************************************************)
(* C2: Listen on an address whose host has no entry in the key store       *)
(* returns the key-not-found error and no listener, and makes no call on   *)
(* the control session.                                                    *)
(***************************************************************************)
C2_ListenWithoutKeyCallsNothing ==
    [][ ( /\ ret'.op = "Listen"
          /\ Parses(ret'.arg[1])
          /\ HostText(OnionValue(ret'.arg[1])) \notin DOMAIN transport[1].keys )
        => ( /\ ret'.err = MissingKeyError
             /\ ret'.res = None
             /\ sessions' = sessions
             /\ listeners' = listeners ) ]_vars

\* Listen on /onion/timaq4ygg2iegci7:80 found no key, while the store holds
\* the key of another host
C2_Witness ==
    /\ ret.op = "Listen"
    /\ ret.arg[1] = OnionMultiaddr(H2 \o << ":","8","0" >>)
    /\ ret.err = MissingKeyError
    /\ H1 \in DOMAIN transport[1].keys

(***************************************************************************)
(* C3: Listen returns the malformed-address error when the onion value is  *)
(* not exactly two segments, the invalid-port error when the port is not a *)
(* number, and fails, returning no listener, when the port is a number     *)
(* outside 1..65535.                                                       *)
(***************************************************************************)
C3_ListenRejectsBadAddress ==
    ret.op = "Listen" =>
        /\ ~TwoSegments(ret.arg[1]) => ret.err = MalformedError /\ ret.res = None
        /\ (TwoSegments(ret.arg[1]) /\ ~IsNumeral(PortText(OnionValue(ret.arg[1]))))
               => ret.err = InvalidPortError /\ ret.res = None
        /\ BadPort(ret.arg[1]) => ret.err # "" /\ ret.res = None

(***************************************************************************)
(* C4: Dial on an onion address the codec rejects (not two segments, or a  *)
(* port that is no integer in 1..65535) returns an error: it does not      *)
(* panic and it makes no dial on the session.                              *)
(***************************************************************************)
C4_DialRejectsBadAddress ==
    ( /\ ret.op = "Dial"
      /\ IsOnion(ret.arg[1])
      /\ (~TwoSegments(ret.arg[1]) \/ BadPort(ret.arg[1])) )
    => ( /\ ~ret.panic
         /\ ret.err # ""
         /\ ret.res = None
         /\ LastCall[1].op # "Dial" )

(***************************************************************************)
(* C5: a connection Dial returns has no local multiaddress and has the     *)
(* dialed address as its remote multiaddress, and no later call changes    *)
(* either.                                                                 *)
(***************************************************************************)
C5_DialedConnAddresses ==
    /\ [] ( (ret.op = "Dial" /\ ret.res # None) =>
              /\ LocalMultiaddr(conns[ret.res[1]]) = None
              /\ RemoteMultiaddr(conns[ret.res[1]]) = ret.arg[1] )
    /\ [][ \A i \in DOMAIN conns :
             /\ i \in DOMAIN conns'
             /\ LocalMultiaddr(conns'[i]) = LocalMultiaddr(conns[i])
             /\ RemoteMultiaddr(conns'[i]) = RemoteMultiaddr(conns[i]) ]_vars

\* a dialed connection is held while a later call returns
C5_Witness ==
    /\ ret.op = "Close"
    /\ \E i \in DOMAIN conns :
         /\ LocalMultiaddr(conns[i]) = None
         /\ RemoteMultiaddr(conns[i]) = OnionMultiaddr(H1 \o << ":","4","0","0","3" >>)

(***************************************************************************)
(* C6: a listener Listen returns reports the address Listen was called     *)
(* with, and no Accept, Close or other call changes what it reports.       *)
(***************************************************************************)
C6_ListenerMultiaddr ==
    /\ [] ( (ret.op = "Listen" /\ ret.res # None) =>
              Multiaddr(listeners[ret.res[1]]) = ret.arg[1] )
    /\ [][ \A i \in DOMAIN listeners :
             /\ i \in DOMAIN listeners'
             /\ Multiaddr(listeners'[i]) = Multiaddr(listeners[i]) ]_vars

\* a listener on /onion/erhkddypoy6qml6h:4003 has accepted a connection and
\* has been closed
C6_Witness ==
    /\ ret.op = "Close"
    /\ listeners[ret.arg[1]].closed
    /\ Multiaddr(listeners[ret.arg[1]]) = OnionMultiaddr(H1 \o << ":","4","0","0","3" >>)
    /\ \E i \in DOMAIN conns : LocalMultiaddr(conns[i]) # None

(***************************************************************************)
(* C7: a call is made on a control session only after Authenticate has     *)
(* succeeded on it; when Authenticate fails NewOnionTransport returns an   *)
(* error and no transport, and no transport is held over such a session.   *)
(***************************************************************************)
C7_CallsAfterAuthenticate ==
    /\ \A sid \in DOMAIN sessions : sessions[sid].call # None => sessions[sid].authed
    /\ transport # None => sessions[transport[1].controlConn].authed
    /\ (ret.op = "NewOnionTransport" /\ ret.res # None) =>
           sessions[ret.res[1].controlConn].authed
    /\ (ret.op = "NewOnionTransport" /\ ret.err = "Authentication failed") =>
           ret.res = None

\* a session that refused the password exists beside one that has been
\* called on
C7_Witness ==
    /\ \E sid \in DOMAIN sessions : ~sessions[sid].authed
    /\ \E sid \in DOMAIN sessions : sessions[sid].call # None

(***************************************************************************)
(* Key files, as the specification speaks of them.                         *)
(***************************************************************************)
\* the names of the key files of a directory
KeyFileNames(dir) == { n \in DOMAIN dir.files : HasSuffix(n, keySuffix) }

\* a key file that fails to decode: no PEM block, or no private key in it
Undecodable(data) ==
    \/ pemDecode(data) = None
    \/ DecodePrivateKeyDER(pemDecode(data)[1].Bytes).err

\* the directory holds a key file that fails to decode
HasUndecodable(dir) ==
    dir.exists /\ \E n \in KeyFileNames(dir) : Undecodable(dir.files[n])

\* NewOnionTransport has returned, or stopped, after it called loadKeys
LoadReturned ==
    /\ ret.op = "NewOnionTransport"
    /\ ret.err \notin { "control dial", "Authentication failed" }

\* the onion identity derived from the public half of a key
Identity(priv) == OnionAddr(PublicKey(priv))

(***************************************************************************)
(* C8: when a key file of the directory fails to decode, the load returns  *)
(* a decode error (it does not panic) and NewOnionTransport returns no     *)
(* transport.                                                              *)
(***************************************************************************)
C8_UndecodableKeyFileIsAnError ==
    (LoadReturned /\ HasUndecodable(keysDir)) =>
        /\ ~ret.panic
        /\ ret.err = "decode private key"
        /\ ret.res = None

(***************************************************************************)
(* C9: when the key directory does not exist, the load fails with an error *)
(* and NewOnionTransport returns no transport.                             *)
(***************************************************************************)
C9_MissingKeyDirIsAnError ==
    (LoadReturned /\ ~keysDir.exists) =>
        /\ ret.err # ""
        /\ ret.res = None

(***************************************************************************)
(* C10: a key written by createHiddenServiceKey to the file named after    *)
(* its onion identity is, after a load of the directory, found under the   *)
(* identity derived from its public half, and is the key that was written. *)
(***************************************************************************)
C10_KeyRoundTrip ==
    /\ (ret.op = "createHiddenServiceKey" /\ ret.res # None) =>
           LET l == loadKeys(keysDir)
           IN  (~l.panic /\ l.err = "") =>
                   \A k \in PrivKeys :
                       Identity(k) = ret.res[1] =>
                           MapLookup(l.keys, Identity(k)) = [ ok |-> TRUE, key |-> k ]
    /\ (ret.op = "NewOnionTransport" /\ ret.res # None) =>
           \A k \in PrivKeys :
               ( /\ keysDir.exists
                 /\ (Identity(k) \o keySuffix) \in DOMAIN keysDir.files
                 /\ keysDir.files[Identity(k) \o keySuffix] = KeyFile(k) )
               => MapLookup(ret.res[1].keys, Identity(k)) = [ ok |-> TRUE, key |-> k ]

\* the key of timaq4ygg2iegci7, written by createHiddenServiceKey into a
\* directory that held the key of erhkddypoy6qml6h, is in the store of the
\* transport
C10_Witness ==
    /\ ret.op = "NewOnionTransport"
    /\ ret.res # None
    /\ keysDir \notin KeyDirs
    /\ MapLookup(ret.res[1].keys, Identity(K2)) = [ ok |-> TRUE, key |-> K2 ]
    /\ MapLookup(ret.res[1].keys, Identity(K1)).ok

(***************************************************************************)
(* The service, as the specification speaks of it.                         *)
(***************************************************************************)
\* Stop has returned
Stopped == service.main = "stopped"

\* acceptLoop is not running: it was never started, or it has returned
LoopEnded == service.loop \in { "none", "done" }

(***************************************************************************)
(* C11: an Accept on a closed listener returns the closed-listener error,  *)
(* which is not the error of a failed accept on an open listener, and no   *)
(* connection; a caller blocked in Accept on a listener that is closed     *)
(* gets its return; and once Stop has begun acceptLoop comes to its end.   *)
(***************************************************************************)
C11_CloseEndsAccept ==
    /\ [] ( ret.op = "Accept" =>
              /\ listeners[ret.arg[1]].closed =>
                     ret.err = ClosedError /\ ret.err # AcceptError /\ ret.res = None
              /\ ~listeners[ret.arg[1]].closed => ret.err # ClosedError )
    /\ [] ( Stopped => LoopEnded )
    /\ \A i \in ListenerIds :
           (i \in pending /\ listeners[i].closed) ~> (i \notin pending)
    /\ service.stopping ~> LoopEnded

\* an Accept has returned the closed-listener error, nobody is blocked in
\* Accept, and acceptLoop has returned after it accepted a connection
C11_Witness ==
    /\ ret.op = "Accept"
    /\ ret.err = ClosedError
    /\ pending = { }
    /\ service.loop = "done"
    /\ Len(service.conns) > 0

(***************************************************************************)
(* C12: when Stop has returned, every connection acceptLoop accepted is    *)
(* closed.                                                                 *)
(***************************************************************************)
C12_StopClosesConnections ==
    Stopped => \A id \in DOMAIN service.conns : service.conns[id].closed

\* Stop has returned; one connection was closed by its handler, another by
\* the sweep while its handler was in the callback
C12_Witness ==
    /\ Stopped
    /\ \E id \in DOMAIN service.conns : service.conns[id].handler = "done"
    /\ \E id \in DOMAIN service.conns :
         service.conns[id].handler = "callback" /\ service.conns[id].closed

(***************************************************************************)
(* C13: when Stop has returned, acceptLoop has ended and no handler of a   *)
(* connection it accepted is still running.                                *)
(***************************************************************************)
C13_NoActivityAfterStop ==
    Stopped =>
        /\ LoopEnded
        /\ \A id \in DOMAIN service.conns : service.conns[id].handler = "done"

(***************************************************************************)
(* C14: a Close of a listener leaves it closed, and a Close of a listener  *)
(* that is closed already, or on which a caller is blocked in Accept,      *)
(* reports no failure for that.                                            *)
(***************************************************************************)
C14_CloseIsIdempotent ==
    ret.op = "Close" =>
        /\ listeners[ret.arg[1]].closed
        /\ ret.err # ClosedError

(***************************************************************************)
(* C15: Close on a listener never returns to its caller the failure of the *)
(* session to remove the hidden service.                                   *)
(***************************************************************************)
C15_DeregisterFailureSuppressed ==
    ret.op = "Close" => ret.err # DeregisterError

(***************************************************************************)
(* C16: a connection Accept returns has the network address of the peer    *)
(* that connected as its remote address and the address of the listener as *)
(* its local address; when the accept fails, Accept returns the error and  *)
(* no connection.                                                          *)
(***************************************************************************)
C16_AcceptedConnAddresses ==
    ret.op = "Accept" =>
        /\ ret.res # None =>
             /\ ret.err = ""
             /\ LocalMultiaddr(conns[ret.res[1]]) = Some(Multiaddr(listeners[ret.arg[1]]))
             /\ \E peer \in Peers :
                  /\ peer.network = "tcp"
                  /\ RemoteMultiaddr(conns[ret.res[1]]) =
                        << [ name |-> "ip4", value |-> peer.ip ],
                           [ name |-> "tcp", value |-> peer.port ] >>
        /\ ret.err # "" => ret.res = None
        /\ ret.res = None => ret.err # ""

\* Accept on the listener of /onion/erhkddypoy6qml6h:4003 has returned a
\* connection
C16_Witness ==
    /\ ret.op = "Accept"
    /\ ret.res # None
    /\ LocalMultiaddr(conns[ret.res[1]]) =
           Some(OnionMultiaddr(H1 \o << ":","4","0","0","3" >>))

(***************************************************************************)
(* C17: CanDial(a) is true exactly when a is a valid onion address, or the *)
(* transport is not in onion-only mode and a has the shape of a TCP        *)
(* address; in onion-only mode it is IsValidOnionMultiAddr(a).             *)
(***************************************************************************)
C17_CanDial ==
    ret.op = "CanDial" =>
        /\ ret.res[1] = ( \/ ValidOnion(ret.arg[1])
                          \/ ~transport[1].onlyOnion /\ TCPMatches(ret.arg[1]) )
        /\ transport[1].onlyOnion => ret.res[1] = IsValidOnionMultiAddr(ret.arg[1])

\* a transport in onion-only mode has refused /ip4/0.0.0.0/tcp/4001
C17_Witness ==
    /\ ret.op = "CanDial"
    /\ transport[1].onlyOnion
    /\ ret.arg[1] = TcpAddr
    /\ ret.res[1] = FALSE

(***************************************************************************)
(* C18: a transport built with onlyOnion = true makes no dial on its       *)
(* session towards an address that is not a valid onion address.           *)
(***************************************************************************)
C18_OnlyOnionDialsOnion ==
    ( /\ ret.op = "Dial"
      /\ transport[1].onlyOnion
      /\ LastCall # None
      /\ LastCall[1].op = "Dial" )
    => IsValidOnionMultiAddr(ret.arg[1])

(***************************************************************************)
(* C19: Protocols() holds the onion protocol in either mode and TCP        *)
(* exactly when the transport is not in onion-only mode, which is exactly  *)
(* when CanDial takes addresses of the TCP shape.                          *)
(***************************************************************************)
C19_Protocols ==
    ret.op = "Protocols" =>
        /\ "onion" \in Range(ret.res[1])
        /\ "tcp" \in Range(ret.res[1]) <=> ~transport[1].onlyOnion
        /\ \A a \in { x \in TcpLikeAddrs : TCPMatches(x) } :
               "tcp" \in Range(ret.res[1]) <=> CanDial(transport[1].onlyOnion, a)

\* a transport in onion-only mode has listed its protocols
C19_Witness ==
    /\ ret.op = "Protocols"
    /\ transport[1].onlyOnion
    /\ ret.res[1] = << "onion" >>

(***************************************************************************)
(* C20: IsValidOnionMultiAddr returns true or false for every value of its *)
(* parameter; it never panics.                                             *)
(***************************************************************************)
C20_IsValidIsTotal ==
    ret.op = "IsValidOnionMultiAddr" =>
        /\ ~ret.panic
        /\ ret.res \in { Some(TRUE), Some(FALSE) }

(***************************************************************************)
(* C21: when Listen succeeds, the Listener call it made on the session has *)
(* the integer port written in the address and the key stored under the    *)
(* host of the address, and the listener holds that port and that key.     *)
(***************************************************************************)
C21_ListenerPortAndKey ==
    (ret.op = "Listen" /\ ret.res # None) =>
        LET v    == OnionValue(ret.arg[1])
            port == Atoi(PortText(v)).n
            key  == transport[1].keys[HostText(v)]
            l    == listeners[ret.res[1]]
        IN  /\ LastCall = Some([ op |-> "Listener", port |-> port, key |-> key ])
            /\ l.port = port
            /\ l.key = key

(***************************************************************************)
(* C22: after a load that succeeded, every entry of the key store is under *)
(* the onion identity derived from its own key, so the host of an address  *)
(* Listen succeeds on is the identity of the key of its listener.          *)
(***************************************************************************)
C22_StoreKeyedByIdentity ==
    /\ (ret.op = "NewOnionTransport" /\ ret.res # None) =>
           \A h \in DOMAIN ret.res[1].keys : Identity(ret.res[1].keys[h]) = h
    /\ (ret.op = "Listen" /\ ret.res # None) =>
           Identity(listeners[ret.res[1]].key) = HostText(OnionValue(ret.arg[1]))

(***************************************************************************)
(* C25: no connection the accept loop accepted is closed more than once:   *)
(* the close of its handler and the close of the final sweep never both    *)
(* act on one connection.                                                  *)
(***************************************************************************)
C25_ClosedAtMostOnce ==
    \A id \in DOMAIN service.conns : service.conns[id].closes <= 1

(***************************************************************************)
(* C23: the accept loop leaves the loop only on an accept error seen after *)
(* Stop has set the stopping flag; while the service is not stopping the   *)
(* loop stays at its accept, whatever the accept returns; and a connection *)
(* is added to the record only by the loop at its accept, at the end of    *)
(* the record, with its own handler started on it.                         *)
(***************************************************************************)
C23_LoopLeavesOnlyWhenStopping ==
    [][ /\ (service.loop = "accept" /\ service'.loop # "accept") =>
               /\ service.stopping
               /\ service'.loop = "close"
               /\ service'.conns = service.conns
        /\ (service.loop = "accept" /\ ~service.stopping) =>
               service'.loop = "accept"
        /\ (Len(service'.conns) # Len(service.conns)) =>
               /\ service.loop = "accept" /\ service'.loop = "accept"
               /\ Len(service'.conns) = Len(service.conns) + 1
               /\ SubSeq(service'.conns, 1, Len(service.conns)) = service.conns
               /\ LET c == service'.conns[Len(service'.conns)]
                  IN  c.slot /\ ~c.closed /\ c.handler = "callback" ]_vars

\* the loop has left on an accept error seen after Stop set the flag and
\* before Stop closed the listener, with a connection accepted, recorded
\* and in its handler
C23_Witness ==
    /\ service.loop = "close"
    /\ service.stopping
    /\ service.listener = "open"
    /\ Len(service.conns) >= 1
    /\ service.conns[1].slot /\ service.conns[1].handler = "callback"

(***************************************************************************)
(* C26: under fair scheduling a Stop called after a Start that opened the  *)
(* listener returns in the end, whatever connections are open and whether  *)
(* their handlers have finished or not; a Start that failed to open the    *)
(* listener started no accept loop and counted none in the wait group, so  *)
(* that a later Stop finds nothing to wait for and returns.                *)
(***************************************************************************)
C26_StopReturns ==
    /\ [](service.main \in { "close", "wait" } /\ service.listener # "nil"
             => <>Stopped)
    /\ []((service.main # "new" /\ service.listener = "nil")
             => (service.loop = "none" /\ service.waitGroup = 0))
    /\ [](service.main \in { "close", "wait" } /\ service.listener = "nil"
             => <>Stopped)

\* Stop has returned after a Start that opened the listener, with one
\* connection whose handler has finished and one whose handler has not
C26_Witness ==
    /\ Stopped
    /\ service.listener = "closed"
    /\ \E i, j \in DOMAIN service.conns :
         /\ service.conns[i].handler = "done"
         /\ service.conns[j].handler = "callback"

(***************************************************************************)
(* C24: a call of Dial, Listen, CanDial, Protocols or the address check    *)
(* (Matches) on a transport, whether it succeeds or fails and whatever     *)
(* calls came before it, leaves the key store, the onion-only mode and the *)
(* control session of the transport as they were: the transport holds the  *)
(* same session, and the session is authenticated as before.               *)
(***************************************************************************)
FrameCalls == { "Dial", "Listen", "CanDial", "Protocols", "IsValidOnionMultiAddr" }

C24_CallsLeaveTransportAlone ==
    [][ (transport # None /\ ret'.op \in FrameCalls) =>
            /\ transport' = transport
            /\ Len(sessions') = Len(sessions)
            /\ sessions'[transport[1].controlConn].authed
                   = sessions[transport[1].controlConn].authed ]_vars

\* a Listen that succeeded and a Dial that failed have both gone through
\* the control session of an onion-only transport that holds a key
C24_Witness ==
    /\ transport # None
    /\ transport[1].onlyOnion
    /\ DOMAIN transport[1].keys # { }
    /\ Len(listeners) >= 1
    /\ ret.op = "Dial" /\ ret.err # ""
    /\ LastCall # None
    /\ sessions[transport[1].controlConn].authed

=============================================================================
